---- MODULE Spec2Model ----
(***************************************************************************)
(* Joystick input subsystem of clubmate-snake (input.c): the device table, *)
(* the udev hotplug bridge, the event decoder and the key history.         *)
(*                                                                         *)
(* The program is single threaded; every public function runs to           *)
(* completion, so each action below is one whole call.  A function that    *)
(* makes system calls is modelled as an operator from a program state to   *)
(* the SET of program states it can return in, one per combination of      *)
(* system-call outcomes (open fails or not, the version probe fails,       *)
(* returns 0 or a version, stat fails or names a device, ...).             *)
(***************************************************************************)
EXTENDS Integers, Sequences, FiniteSets, TLC

(***************************************************************************)
(* Sizes.  MAX_JOYSTICKS and KEY_HISTORY_SIZE come from matelight.h; the   *)
(* model runs with small stand-ins.                                        *)
(***************************************************************************)
MAX_JOYSTICKS == 2

KEY_HISTORY_SIZE == 2

\* descriptors the process may hold at once (RLIMIT_NOFILE, less stdio)
MaxOpenFiles == 3

\* hotplug notifications that may wait on the monitor socket
MaxPending == 1

\* devices the startup enumeration may list
MaxEnum == 1

\* events that may wait on one device descriptor
MaxEvq == 1

\* size_t arithmetic is modular; 2^30 stands for 2^64 (TLC integers are 32 bit)
SizeMod == 1073741824

(***************************************************************************)
(* The environment's vocabulary.                                           *)
(***************************************************************************)
Paths == {"js0", "js1"}

\* st_rdev values stat() may report
Devs == {11, 12}

\* descriptor numbers open() hands out: the lowest unused one above stdio
FdRange == 3 .. (2 + MaxOpenFiles)

Slots == 0 .. (MAX_JOYSTICKS - 1)

\* logical keys (matelight.h); KEYPAD_NONE is the zero value
KEYPAD_NONE == "NONE"

Keys == {"UP", "DOWN", "LEFT", "RIGHT", "A", "B", "SELECT", "START"}

\* struct js_event: type without / with JS_EVENT_INIT, number, value
Event(t, i, n, v) == [type |-> t, init |-> i, number |-> n, value |-> v]

\* udev notifications: action, devnode ("" = none), ID_INPUT_JOYSTICK == "1"
Notif(a, p, j) == [action |-> a, devnode |-> p, joy |-> j]

Min(S) == CHOOSE x \in S : \A y \in S : x <= y

(***************************************************************************)
(* Program state.                                                          *)
(***************************************************************************)
VARIABLES
    joysticks,      \* static struct joystick joysticks[MAX_JOYSTICKS]
    num_joysticks,  \* static size_t num_joysticks
    udev_ctx,       \* udev_ctx != NULL
    udev_monitor,   \* udev_monitor != NULL
    open_fds,       \* descriptors the process holds (beyond stdio)
    evq,            \* per descriptor: events the kernel has queued on it
    pending,        \* notifications waiting on the monitor socket
    proc,           \* "running", "exited" (exit(EXIT_FAILURE)) or "crashed"
    oob,            \* a write outside joysticks[] has happened
    stderr_line,    \* the last diagnostic written to stderr
    joystick_ptr,   \* the caller's struct joystick *, target of read_joystick
    ret,            \* what the last non-void call returned
    presses         \* history variable: per slot, the keys of the presses
                    \* decoded since the slot was opened, oldest first (the
                    \* last KEY_HISTORY_SIZE of them)

vars == <<joysticks, num_joysticks, udev_ctx, udev_monitor, open_fds, evq,
          pending, proc, oob, stderr_line, joystick_ptr, ret, presses>>

\* an all-zero struct joystick (static storage, "= { 0 }")
ZeroJoystick ==
    [fd |-> 0, devnode |-> "", dev |-> 0, player |-> 0, key_state |-> {},
     last_key_idx |-> KEYPAD_NONE, last_key_val |-> FALSE,
     key_history |-> [h \in 0 .. (KEY_HISTORY_SIZE - 1) |-> KEYPAD_NONE]]

\* the program state as one value, so that functions can be composed
Cur ==
    [joysticks |-> joysticks, num_joysticks |-> num_joysticks,
     udev_ctx |-> udev_ctx, udev_monitor |-> udev_monitor,
     open_fds |-> open_fds, evq |-> evq, proc |-> proc, oob |-> oob,
     stderr_line |-> stderr_line, presses |-> presses]

Install(s) ==
    /\ joysticks' = s.joysticks
    /\ num_joysticks' = s.num_joysticks
    /\ udev_ctx' = s.udev_ctx
    /\ udev_monitor' = s.udev_monitor
    /\ open_fds' = s.open_fds
    /\ evq' = s.evq
    /\ proc' = s.proc
    /\ oob' = s.oob
    /\ stderr_line' = s.stderr_line
    /\ presses' = s.presses

\* a diagnostic: its text, and the device path and player number it prints
Line(msg, devnode, player) == [msg |-> msg, devnode |-> devnode, player |-> player]

fprintf(s, msg, devnode, player) ==
    [s EXCEPT !.stderr_line = Line(msg, devnode, player)]

\* a returned value: the function, its result, and for a function taking a
\* struct joystick * (a slot index, -1 = NULL) and a key sequence its
\* arguments and the key_history indices it read
Ret(op, val, joystick, seq, reads) ==
    [op |-> op, val |-> val, joystick |-> joystick, seq |-> seq, reads |-> reads]

NoRet == Ret("none", FALSE, -1, << >>, {})

Init ==
    /\ joysticks = [i \in Slots |-> ZeroJoystick]
    /\ num_joysticks = 0
    /\ udev_ctx = FALSE
    /\ udev_monitor = FALSE
    /\ open_fds = {}
    /\ evq = [f \in FdRange |-> << >>]
    /\ pending = << >>
    /\ proc = "running"
    /\ oob = FALSE
    /\ stderr_line = Line("", "", 0)
    /\ joystick_ptr = -1
    /\ ret = NoRet
    /\ presses = [i \in Slots |-> << >>]

(***************************************************************************)
(* System calls.                                                           *)
(***************************************************************************)
\* close(fd): the descriptor and whatever was queued on it are gone
sys_close(s, fd) ==
    [s EXCEPT !.open_fds = @ \ {fd},
              !.evq = [f \in FdRange |-> IF f = fd THEN << >> ELSE @[f]]]

\* open(devnode, O_RDONLY): -1, or the lowest descriptor not in use
sys_open(s) ==
    LET free == FdRange \ s.open_fds
    IN  {[st |-> s, fd |-> -1]} \cup
        (IF free = {} THEN {}
         ELSE {[st |-> [s EXCEPT !.open_fds = @ \cup {Min(free)}],
                fd |-> Min(free)]})

(***************************************************************************)
(* The device table.                                                       *)
(***************************************************************************)
Active(s, i) == i < s.num_joysticks /\ s.joysticks[i].fd # -1

ActiveSlots(s) == {i \in Slots : Active(s, i)}

\* count_joysticks()
count_joysticks(s) == Cardinality(ActiveSlots(s))

\* get_free_joystick(): the slot index, or -1 for NULL
get_free_joystick(s) ==
    LET free == {i \in 0 .. (s.num_joysticks - 1) : s.joysticks[i].fd = -1}
    IN  IF free # {}
        THEN [st |-> s, idx |-> Min(free)]
        ELSE IF s.num_joysticks < MAX_JOYSTICKS
        THEN [st |-> [s EXCEPT !.joysticks[s.num_joysticks].fd = -1,
                               !.num_joysticks = @ + 1],
              idx |-> s.num_joysticks]
        ELSE [st |-> s, idx |-> -1]

\* the for loop of get_available_player(), entered at index i
RECURSIVE player_scan(_, _, _)
player_scan(s, i, player) ==
    IF i >= s.num_joysticks THEN player
    ELSE IF s.joysticks[i].fd = -1 THEN player_scan(s, i + 1, player)
    ELSE IF s.joysticks[i].player = player
         \* "i = 0" and then the loop's own i++: the scan resumes at slot 1
         THEN player_scan(s, 1, player + 1)
         ELSE player_scan(s, i + 1, player)

\* a player numbering by head count: one more than the devices in use
get_available_player_by_count(s) == count_joysticks(s) + 1

\* a player numbering that never looks at the table
get_available_player_first(s) == 1

\* get_available_player()
get_available_player(s) == player_scan(s, 0, 1)

(***************************************************************************)
(* open_joystick                                                           *)
(***************************************************************************)
\* All the bytes of one key_history set to '\0'
ZeroHistory == [h \in 0 .. (KEY_HISTORY_SIZE - 1) |-> KEYPAD_NONE]

\* memset(joysticks[MAX_JOYSTICKS].key_history, ...): a write past the end of
\* the table.  What lies there is not fixed by the source: the bytes may
\* belong to nothing this file uses, to any of the three statics declared
\* after the table (which then read as 0 / NULL), or to no mapped page.
oob_write(s) ==
    {[s EXCEPT !.oob = TRUE,
               !.num_joysticks = IF "num_joysticks" \in c THEN 0 ELSE @,
               !.udev_ctx = IF "udev_ctx" \in c THEN FALSE ELSE @,
               !.udev_monitor = IF "udev_monitor" \in c THEN FALSE ELSE @]
        : c \in SUBSET {"num_joysticks", "udev_ctx", "udev_monitor"}}
    \cup {[s EXCEPT !.oob = TRUE, !.proc = "crashed"]}

\* memset(joysticks[num_joysticks].key_history, '\0', ...)
clear_history(s) ==
    IF s.num_joysticks < MAX_JOYSTICKS
    THEN {[s EXCEPT !.joysticks[s.num_joysticks].key_history = ZeroHistory]}
    ELSE oob_write(s)

OpenResult(s, ok, idx, err) == [st |-> s, ok |-> ok, idx |-> idx, errno |-> err]

\* open_joystick() from the call of get_free_joystick() on, fd being open
fill_slot(s, fd, devnode, dev) ==
    LET g == get_free_joystick(s)
        player == get_available_player(g.st)
        filled == [g.st EXCEPT !.joysticks[g.idx] =
                      [@ EXCEPT !.fd = fd, !.devnode = devnode, !.dev = dev,
                                !.player = player, !.key_state = {},
                                !.last_key_idx = KEYPAD_NONE,
                                !.last_key_val = FALSE],
                             !.presses[g.idx] = << >>]
    IN  IF g.idx = -1
        THEN {OpenResult(sys_close(s, fd), FALSE, -1, "ENOMEM")}
        ELSE {OpenResult(IF t.proc = "running"
                         THEN fprintf(t, "initialized joystick", devnode, player)
                         ELSE t,
                         t.proc = "running", g.idx, "")
                : t \in clear_history(filled)}

\* outcomes of ioctl(fd, JSIOCGVERSION, &version)
VersionProbes == {"error", "zero", "version"}

\* an open_joystick whose strict probe rejects errors only, not version 0
open_joystick_on_lax(s, devnode, dev, check_joydev, o, probe) ==
    IF o.fd = -1
    THEN {OpenResult(s, FALSE, -1, "open")}
    ELSE IF check_joydev /\ probe = "error"
    THEN {OpenResult(sys_close(o.st, o.fd), FALSE, -1, "ioctl")}
    ELSE fill_slot(o.st, o.fd, devnode, dev)

\* open_joystick(devnode, st, check_joydev), st->st_rdev being dev, when
\* open() returns o and the version probe ends as probe
open_joystick_on(s, devnode, dev, check_joydev, o, probe) ==
    IF o.fd = -1
    THEN {OpenResult(s, FALSE, -1, "open")}
    ELSE IF check_joydev /\ probe = "error"
    THEN {OpenResult(sys_close(o.st, o.fd), FALSE, -1, "ioctl")}
    ELSE IF check_joydev /\ probe = "zero"
    THEN {OpenResult(o.st, FALSE, -1, "EINVAL")}
    ELSE fill_slot(o.st, o.fd, devnode, dev)

\* open_joystick(devnode, st, check_joydev), st->st_rdev being dev
open_joystick(s, devnode, dev, check_joydev) ==
    UNION {open_joystick_on(s, devnode, dev, check_joydev, o, probe)
            : o \in sys_open(s), probe \in VersionProbes}

\* exit(EXIT_FAILURE)
exit_failure(s) == [s EXCEPT !.proc = "exited"]

\* outcomes of stat(devnode, &st): -1 for failure, else st_rdev
StatResults == {-1} \cup Devs

\* init_joystick(devnode); "" is the null pointer
init_joystick(s, devnode) ==
    IF devnode = "" THEN {s}
    ELSE LET s1 == fprintf(s, "initializing joystick", devnode, 0)
         IN  UNION {
        IF d = -1 THEN {exit_failure(fprintf(s1, "perror", devnode, 0))}
        ELSE {IF r.ok \/ r.st.proc # "running" THEN r.st
              ELSE exit_failure(fprintf(r.st, "perror", devnode, 0))
                : r \in open_joystick(s1, devnode, d, FALSE)}
        : d \in StatResults}

(***************************************************************************)
(* Hotplug                                                                 *)
(***************************************************************************)
\* an add_udev_device that takes a device for open by its path, not st_rdev
add_udev_device_on_by_path(s, devnode, d) ==
    IF d = -1
    THEN {fprintf(s, "add_udev_device: unable to stat", devnode, 0)}
    ELSE IF \E i \in ActiveSlots(s) : s.joysticks[i].devnode = devnode
    THEN {fprintf(s, "add_udev_device: allready opened", devnode, 0)}
    ELSE {IF r.ok \/ r.st.proc # "running" THEN r.st
          ELSE fprintf(r.st, "add_udev_device: unable to open", devnode, 0)
            : r \in open_joystick(s, devnode, d, TRUE)}

\* add_udev_device(dev) from stat() on, which returns d
add_udev_device_on(s, devnode, d) ==
    IF d = -1
    THEN {fprintf(s, "add_udev_device: unable to stat", devnode, 0)}
    ELSE IF \E i \in ActiveSlots(s) : s.joysticks[i].dev = d
    THEN {fprintf(s, "add_udev_device: allready opened", devnode, 0)}
    ELSE {IF r.ok \/ r.st.proc # "running" THEN r.st
          ELSE fprintf(r.st, "add_udev_device: unable to open", devnode, 0)
            : r \in open_joystick(s, devnode, d, TRUE)}

\* add_udev_device(dev), devnode being udev_device_get_devnode(dev)
add_udev_device(s, devnode) ==
    IF devnode = ""
    THEN {fprintf(s, "add_udev_device: unable to get joystick name", "", 0)}
    ELSE UNION {add_udev_device_on(s, devnode, d) : d \in StatResults}

\* a removal loop that stops at the first slot it frees
RECURSIVE remove_scan_first(_, _, _)
remove_scan_first(s, devnode, i) ==
    IF i >= s.num_joysticks THEN s
    ELSE IF s.joysticks[i].fd # -1 /\ s.joysticks[i].devnode = devnode
    THEN [sys_close(fprintf(s, "remove_udev_device: removed joystick",
                            devnode, 0), s.joysticks[i].fd)
             EXCEPT !.joysticks[i].fd = -1]
    ELSE remove_scan_first(s, devnode, i + 1)

\* the for loop of remove_udev_device(), entered at index i
RECURSIVE remove_scan(_, _, _)
remove_scan(s, devnode, i) ==
    IF i >= s.num_joysticks THEN s
    ELSE IF s.joysticks[i].fd # -1 /\ s.joysticks[i].devnode = devnode
    THEN remove_scan(
            [sys_close(fprintf(s, "remove_udev_device: removed joystick",
                               devnode, 0), s.joysticks[i].fd)
                EXCEPT !.joysticks[i].fd = -1], devnode, i + 1)
    ELSE remove_scan(s, devnode, i + 1)

\* remove_udev_device(dev)
remove_udev_device(s, devnode) ==
    IF devnode = ""
    THEN fprintf(s, "remove_udev_device: unable to get joystick name", "", 0)
    ELSE remove_scan(s, devnode, 0)

\* the release of the udev objects (input_reset and init_udev_hotplug)
udev_release(s) ==
    IF s.udev_ctx
    THEN [s EXCEPT !.udev_monitor = FALSE, !.udev_ctx = FALSE]
    ELSE s

\* the for loop of input_reset(), entered at index i
RECURSIVE reset_scan(_, _)
reset_scan(s, i) ==
    IF i >= s.num_joysticks THEN s
    ELSE IF s.joysticks[i].fd # -1
    THEN reset_scan([sys_close(s, s.joysticks[i].fd)
                        EXCEPT !.joysticks[i].fd = -1], i + 1)
    ELSE reset_scan(s, i + 1)

\* input_reset()
input_reset(s) == udev_release([reset_scan(s, 0) EXCEPT !.num_joysticks = 0])

\* the udev_list_entry_foreach loop of init_udev_hotplug()
RECURSIVE enumerate_scan(_, _)
enumerate_scan(S, devices) ==
    IF devices = << >> THEN S
    ELSE enumerate_scan(
            UNION {IF s.proc = "running"
                   THEN add_udev_device(s, Head(devices)) ELSE {s} : s \in S},
            Tail(devices))

\* an init_udev_hotplug() that exits when the monitor cannot be created
init_udev_hotplug_on_strict(s, devices, udev_ok, mon_ok, enum_ok) ==
    LET r == udev_release(s)
        m == [r EXCEPT !.udev_ctx = TRUE, !.udev_monitor = TRUE]
    IN  IF ~udev_ok
        THEN {exit_failure(fprintf(r,
                "init_udev_hotplug: unable to initialize udev", "", 0))}
        ELSE IF ~mon_ok
        THEN {exit_failure(fprintf([r EXCEPT !.udev_ctx = TRUE],
                "init_udev_hotplug: unable to initialize udev monitor", "", 0))}
        ELSE IF ~enum_ok
        THEN {exit_failure(fprintf(m,
                "init_udev_hotplug: unable to initialize udev enumeration",
                "", 0))}
        ELSE enumerate_scan({m}, devices)

\* init_udev_hotplug() when udev_new(), udev_monitor_new_from_netlink() and
\* udev_enumerate_new() succeed (udev_ok, mon_ok, enum_ok) or fail; devices
\* is the enumerated list
init_udev_hotplug_on(s, devices, udev_ok, mon_ok, enum_ok) ==
    LET r == udev_release(s)
        m == IF mon_ok
             THEN [r EXCEPT !.udev_ctx = TRUE, !.udev_monitor = TRUE]
             ELSE fprintf([r EXCEPT !.udev_ctx = TRUE, !.udev_monitor = FALSE],
                     "init_udev_hotplug: unable to initialize udev monitor",
                     "", 0)
    IN  IF ~udev_ok
        THEN {exit_failure(fprintf(r,
                "init_udev_hotplug: unable to initialize udev", "", 0))}
        ELSE IF ~enum_ok
        THEN {exit_failure(fprintf(m,
                "init_udev_hotplug: unable to initialize udev enumeration",
                "", 0))}
        ELSE enumerate_scan({m}, devices)

\* init_udev_hotplug(), each of the three calls failing or not
init_udev_hotplug(s, devices) ==
    UNION {init_udev_hotplug_on(s, devices, udev_ok, mon_ok, enum_ok) :
            udev_ok \in BOOLEAN, mon_ok \in BOOLEAN, enum_ok \in BOOLEAN}

\* one received notification of udev_monitor_poll()
dispatch(s, n) ==
    IF ~n.joy THEN {s}
    ELSE IF n.action = "add" THEN add_udev_device(s, n.devnode)
    ELSE IF n.action = "remove" THEN {remove_udev_device(s, n.devnode)}
    ELSE IF n.action = "change"
    THEN add_udev_device(remove_udev_device(s, n.devnode), n.devnode)
    ELSE {s}

\* the for (;;) loop of udev_monitor_poll(): pairs <<state, notifications
\* left on the socket>>.  udev_monitor is read again on every round.
RECURSIVE poll_loop(_)
poll_loop(P) ==
    IF \A p \in P : p[2] = << >> \/ p[1].proc # "running" \/ ~p[1].udev_monitor
    THEN P
    ELSE poll_loop(UNION {
            IF p[2] = << >> \/ p[1].proc # "running" \/ ~p[1].udev_monitor
            THEN {p}
            ELSE {<<t, Tail(p[2])>> : t \in dispatch(p[1], Head(p[2]))}
            : p \in P})

\* udev_monitor_poll()
udev_monitor_poll(s, queue) ==
    IF ~s.udev_ctx \/ ~s.udev_monitor THEN {<<s, queue>>}
    ELSE poll_loop({<<s, queue>>})

(***************************************************************************)
(* The event decoder                                                       *)
(***************************************************************************)
\* a button mapping with A and B exchanged
button_key_swapped(number) ==
    IF number = 8 THEN "SELECT"
    ELSE IF number = 9 THEN "START"
    ELSE IF number = 0 THEN "A"
    ELSE IF number = 1 THEN "B"
    ELSE KEYPAD_NONE

\* switch (event.number) of the JS_EVENT_BUTTON case
button_key(number) ==
    IF number = 8 THEN "SELECT"
    ELSE IF number = 9 THEN "START"
    ELSE IF number = 0 THEN "B"
    ELSE IF number = 1 THEN "A"
    ELSE KEYPAD_NONE

\* the JS_EVENT_BUTTON case
decode_button(j, e) ==
    LET key_idx == button_key(e.number)
    IN  IF key_idx # KEYPAD_NONE
        THEN [j EXCEPT !.last_key_idx = key_idx,
                       !.last_key_val = (e.value # 0),
                       !.key_state = IF e.value # 0 THEN @ \cup {key_idx}
                                     ELSE @ \ {key_idx}]
        ELSE [j EXCEPT !.last_key_idx = KEYPAD_NONE, !.last_key_val = FALSE]

\* an axis decoder that leaves the opposite direction set
decode_axis_sticky(j, e, neg, pos) ==
    IF e.value <= -1024
    THEN [j EXCEPT !.last_key_idx = neg, !.last_key_val = TRUE,
                   !.key_state = @ \cup {neg}]
    ELSE IF e.value >= 1024
    THEN [j EXCEPT !.last_key_idx = pos, !.last_key_val = TRUE,
                   !.key_state = @ \cup {pos}]
    ELSE [j EXCEPT !.last_key_idx = IF neg \in j.key_state THEN neg
                                    ELSE IF pos \in j.key_state THEN pos
                                    ELSE KEYPAD_NONE,
                   !.last_key_val = FALSE,
                   !.key_state = (@ \ {neg}) \ {pos}]

\* an axis decoder whose thresholds are exclusive
decode_axis_exclusive(j, e, neg, pos) ==
    IF e.value < -1024
    THEN [j EXCEPT !.last_key_idx = neg, !.last_key_val = TRUE,
                   !.key_state = (@ \cup {neg}) \ {pos}]
    ELSE IF e.value > 1024
    THEN [j EXCEPT !.last_key_idx = pos, !.last_key_val = TRUE,
                   !.key_state = (@ \ {neg}) \cup {pos}]
    ELSE [j EXCEPT !.last_key_idx = IF neg \in j.key_state THEN neg
                                    ELSE IF pos \in j.key_state THEN pos
                                    ELSE KEYPAD_NONE,
                   !.last_key_val = FALSE,
                   !.key_state = (@ \ {neg}) \ {pos}]

\* one case of switch (event.number) of the JS_EVENT_AXIS case: neg is the
\* key of values <= -1024, pos the key of values >= 1024
decode_axis(j, e, neg, pos) ==
    IF e.value <= -1024
    THEN [j EXCEPT !.last_key_idx = neg, !.last_key_val = TRUE,
                   !.key_state = (@ \cup {neg}) \ {pos}]
    ELSE IF e.value >= 1024
    THEN [j EXCEPT !.last_key_idx = pos, !.last_key_val = TRUE,
                   !.key_state = (@ \ {neg}) \cup {pos}]
    ELSE [j EXCEPT !.last_key_idx = IF neg \in j.key_state THEN neg
                                    ELSE IF pos \in j.key_state THEN pos
                                    ELSE KEYPAD_NONE,
                   !.last_key_val = FALSE,
                   !.key_state = (@ \ {neg}) \ {pos}]

\* switch (event.type & ~JS_EVENT_INIT)
decode(j, e) ==
    IF e.type = "BUTTON" THEN decode_button(j, e)
    ELSE IF e.type = "AXIS"
    THEN IF e.number = 0 THEN decode_axis(j, e, "LEFT", "RIGHT")
         ELSE IF e.number = 1 THEN decode_axis(j, e, "UP", "DOWN")
         ELSE [j EXCEPT !.last_key_idx = KEYPAD_NONE, !.last_key_val = FALSE]
    ELSE [j EXCEPT !.last_key_idx = KEYPAD_NONE, !.last_key_val = FALSE]

\* a history that stores every mapped key, pressed or released
push_history_any(j) ==
    IF j.last_key_idx # KEYPAD_NONE
    THEN [j EXCEPT !.key_history =
            [h \in 0 .. (KEY_HISTORY_SIZE - 1) |->
                IF h = 0 THEN j.last_key_idx ELSE j.key_history[h - 1]]]
    ELSE j

\* the memmove and store that follow the switch
push_history(j) ==
    IF j.last_key_idx # KEYPAD_NONE /\ j.last_key_val
    THEN [j EXCEPT !.key_history =
            [h \in 0 .. (KEY_HISTORY_SIZE - 1) |->
                IF h = 0 THEN j.last_key_idx ELSE j.key_history[h - 1]]]
    ELSE j

\* the key an event presses, KEYPAD_NONE for a release, a dead-zone value
\* and an unmapped button, axis or type
press_key(e) ==
    IF e.type = "BUTTON"
    THEN IF e.value # 0 THEN button_key(e.number) ELSE KEYPAD_NONE
    ELSE IF e.type = "AXIS" /\ e.number \in {0, 1}
    THEN IF e.value <= -1024 THEN (IF e.number = 0 THEN "LEFT" ELSE "UP")
         ELSE IF e.value >= 1024 THEN (IF e.number = 0 THEN "RIGHT" ELSE "DOWN")
         ELSE KEYPAD_NONE
    ELSE KEYPAD_NONE

\* the presses of a slot once event e has been read from it
note_press(p, e) ==
    IF press_key(e) # KEYPAD_NONE
    THEN LET q == Append(p, press_key(e))
         IN  IF Len(q) > KEY_HISTORY_SIZE THEN Tail(q) ELSE q
    ELSE p

\* slots whose read() returns a whole struct js_event
Readable(s) == {i \in ActiveSlots(s) : s.evq[s.joysticks[i].fd] # << >>}

ReadResult(s, queue, val, ptr) ==
    [st |-> s, queue |-> queue, val |-> val, ptr |-> ptr]

\* a read phase that serves the highest-indexed slot that has an event
read_scan_last(s, queue, ptr) ==
    IF s.proc # "running" THEN ReadResult(s, queue, FALSE, ptr)
    ELSE IF s.num_joysticks <= 0 THEN ReadResult(s, queue, FALSE, ptr)
    ELSE IF Readable(s) = {} THEN ReadResult(s, queue, FALSE, ptr)
    ELSE LET i == CHOOSE x \in Readable(s) : \A y \in Readable(s) : y <= x
             fd == s.joysticks[i].fd
             e == Head(s.evq[fd])
         IN  ReadResult(
                [s EXCEPT !.evq[fd] = Tail(@),
                          !.joysticks[i] = push_history(decode(@, e)),
                          !.presses[i] = note_press(@, e)],
                queue, TRUE, i)

\* read_joystick() after udev_monitor_poll(); ptr is *joystick_ptr
read_scan(s, queue, ptr) ==
    IF s.proc # "running" THEN ReadResult(s, queue, FALSE, ptr)
    ELSE IF s.num_joysticks <= 0 THEN ReadResult(s, queue, FALSE, ptr)
    ELSE IF Readable(s) = {} THEN ReadResult(s, queue, FALSE, ptr)
    ELSE LET i == Min(Readable(s))
             fd == s.joysticks[i].fd
             e == Head(s.evq[fd])
         IN  ReadResult(
                [s EXCEPT !.evq[fd] = Tail(@),
                          !.joysticks[i] = push_history(decode(@, e)),
                          !.presses[i] = note_press(@, e)],
                queue, TRUE, i)

\* read_joystick(joystick_ptr), queue being what waits on the monitor socket
read_joystick(s, queue, ptr) ==
    {read_scan(p[1], p[2], ptr) : p \in udev_monitor_poll(s, queue)}

(***************************************************************************)
(* The key history matcher                                                 *)
(***************************************************************************)
\* the for loop of joystick_is_key_seq(): the set of <<result, indices of
\* key_history read>>.  A read outside key_history yields any value.
RECURSIVE seq_loop(_, _, _, _, _)
seq_loop(history, seq, hi, si, reads) ==
    IF si >= Len(seq) THEN {<<TRUE, reads>>}
    ELSE LET differ == IF hi \in DOMAIN history
                       THEN {history[hi] # seq[si + 1]}
                       ELSE BOOLEAN
         IN  UNION {IF d THEN {<<FALSE, reads \cup {hi}>>}
                    ELSE seq_loop(history, seq, (hi - 1) % SizeMod, si + 1,
                                  reads \cup {hi})
                    : d \in differ}

\* a matcher without the check of seq_length against KEY_HISTORY_SIZE
joystick_is_key_seq_unchecked(s, joystick, seq) ==
    IF joystick = -1 THEN {<<FALSE, {}>>}
    ELSE seq_loop(s.joysticks[joystick].key_history, seq,
                  (Len(seq) - 1) % SizeMod, 0, {})

\* joystick_is_key_seq(joystick, seq, seq_length), joystick being a slot
\* index or -1 for NULL, seq_length the length of seq
joystick_is_key_seq(s, joystick, seq) ==
    IF joystick = -1 THEN {<<FALSE, {}>>}
    ELSE IF Len(seq) > KEY_HISTORY_SIZE THEN {<<FALSE, {}>>}
    ELSE seq_loop(s.joysticks[joystick].key_history, seq,
                  (Len(seq) - 1) % SizeMod, 0, {})

(***************************************************************************)
(* The environment                                                         *)
(***************************************************************************)
\* notifications the monitor socket may deliver: add, remove and change of
\* a joystick, and ones the poll loop ignores or cannot resolve
Notifs ==
    {Notif(a, p, TRUE) : a \in {"add", "remove", "change"}, p \in Paths}
    \cup {Notif("add", "js0", FALSE), Notif("bind", "js0", TRUE),
          Notif("add", "", TRUE)}

\* lists udev_enumerate_get_list_entry() may return
RECURSIVE SeqsUpTo(_, _)
SeqsUpTo(S, n) ==
    IF n = 0 THEN {<< >>}
    ELSE LET shorter == SeqsUpTo(S, n - 1)
         IN  shorter \cup {Append(q, x) : q \in shorter, x \in S}

\* device events of the registry specification: stick left, stick centred
RegistryEvents ==
    {Event("AXIS", FALSE, 0, -1200), Event("AXIS", FALSE, 0, 50)}

\* device events of the axis specification
AxisEvents ==
    {Event("AXIS", i, n, v) : i \in BOOLEAN, n \in {0, 1},
                              v \in {-1200, -1024, -1023, 50, 1023, 1024}}
    \cup {Event("AXIS", FALSE, 2, -1200), Event("BUTTON", FALSE, 1, 1)}

\* device events of the key sequence specification: A pressed, B pressed
PressEvents ==
    {Event("BUTTON", FALSE, 1, 1), Event("BUTTON", FALSE, 0, 1)}

\* device events of the history specification: A, B and LEFT pressed, A
\* released, an unmapped button pressed, a dead-zone value
HistEvents ==
    {Event("BUTTON", FALSE, 1, 1), Event("BUTTON", FALSE, 0, 1),
     Event("AXIS", FALSE, 0, -1200), Event("BUTTON", FALSE, 1, 0),
     Event("BUTTON", FALSE, 2, 1), Event("AXIS", FALSE, 0, 50)}

\* notifications and device events of the poll specification: two devices
\* come, one goes; the stick is pushed left
PollNotifs ==
    {Notif("add", "js0", TRUE), Notif("add", "js1", TRUE),
     Notif("remove", "js0", TRUE)}

PollEvents == {Event("AXIS", FALSE, 0, -1200)}

\* device events of the button specification: A and SELECT pressed and
\* released, an unmapped button pressed, A pressed in the initial replay
ButtonEvents ==
    {Event("BUTTON", FALSE, n, v) : n \in {1, 8}, v \in {0, 1}}
    \cup {Event("BUTTON", FALSE, 2, 1), Event("BUTTON", TRUE, 1, 1)}

\* device events of the key state specification: both axes pushed either
\* way and centred, A pressed and released
KeyEvents ==
    {Event("AXIS", FALSE, n, v) : n \in {0, 1}, v \in {-1200, 50, 1200}}
    \cup {Event("BUTTON", FALSE, 1, 1), Event("BUTTON", FALSE, 1, 0)}

\* key sequences a caller passes to joystick_is_key_seq
SeqArgs == SeqsUpTo({"A", "B", KEYPAD_NONE}, KEY_HISTORY_SIZE + 1)

(***************************************************************************)
(* Actions: one per call of a public function, and the environment's       *)
(***************************************************************************)
Running == proc = "running"

\* the monitor socket's queue lives and dies with udev_monitor
SocketQueue(s, queue) == IF s.udev_monitor THEN queue ELSE << >>

\* init_joystick(devnode) for a devnode of P
InitJoystick(P) ==
    /\ Running
    /\ \E devnode \in P : \E t \in init_joystick(Cur, devnode) :
        /\ Install(t)
        /\ pending' = SocketQueue(t, pending)
    /\ UNCHANGED <<joystick_ptr, ret>>

\* a caller that opens a single device: init_joystick() on an empty table
InitFirstJoystick(P) ==
    /\ num_joysticks = 0
    /\ InitJoystick(P)

\* init_udev_hotplug(): a new monitor has a new, empty socket
InitUdevHotplug ==
    /\ Running
    /\ \E devices \in SeqsUpTo(Paths, MaxEnum) :
        \E t \in init_udev_hotplug(Cur, devices) : Install(t)
    /\ pending' = << >>
    /\ UNCHANGED <<joystick_ptr, ret>>

\* input_reset()
InputReset ==
    /\ Running
    /\ Install(input_reset(Cur))
    /\ pending' = SocketQueue(input_reset(Cur), pending)
    /\ UNCHANGED <<joystick_ptr, ret>>

\* read_joystick(&joystick_ptr)
ReadJoystick ==
    /\ Running
    /\ \E r \in read_joystick(Cur, pending, joystick_ptr) :
        /\ Install(r.st)
        /\ pending' = SocketQueue(r.st, r.queue)
        /\ joystick_ptr' = r.ptr
        /\ ret' = IF r.st.proc = "running"
                  THEN Ret("read_joystick", r.val, -1, << >>, {})
                  ELSE ret

\* joystick_is_key_seq(joystick, seq, Len(seq)) on a slot or on NULL
IsKeySeq ==
    /\ Running
    /\ \E joystick \in ActiveSlots(Cur) \cup {-1}, seq \in SeqArgs :
        \E r \in joystick_is_key_seq(Cur, joystick, seq) :
            ret' = Ret("joystick_is_key_seq", r[1], joystick, seq, r[2])
    /\ UNCHANGED <<joysticks, num_joysticks, udev_ctx, udev_monitor, open_fds,
                   evq, pending, proc, oob, stderr_line, joystick_ptr, presses>>

\* udev queues a notification of N on the monitor socket, which holds max
HotplugOf(N, max) ==
    /\ Running
    /\ udev_monitor
    /\ Len(pending) < max
    /\ \E n \in N : pending' = Append(pending, n)
    /\ UNCHANGED <<joysticks, num_joysticks, udev_ctx, udev_monitor, open_fds,
                   evq, proc, oob, stderr_line, joystick_ptr, ret, presses>>

Hotplug(max) == HotplugOf(Notifs, max)

\* get_available_player()
GetAvailablePlayer ==
    /\ Running
    /\ ret' = Ret("get_available_player", get_available_player(Cur), -1,
                  << >>, {})
    /\ UNCHANGED <<joysticks, num_joysticks, udev_ctx, udev_monitor, open_fds,
                   evq, pending, proc, oob, stderr_line, joystick_ptr, presses>>

\* a program that starts hotplug once, on an empty table
InitFirstUdevHotplug ==
    /\ ~udev_ctx
    /\ num_joysticks = 0
    /\ InitUdevHotplug

\* the kernel queues an event of E on the descriptor of an active slot
DeviceEvent(E) ==
    /\ Running
    /\ \E i \in ActiveSlots(Cur), e \in E :
        /\ Len(evq[joysticks[i].fd]) < MaxEvq
        /\ evq' = [evq EXCEPT ![joysticks[i].fd] = Append(@, e)]
    /\ UNCHANGED <<joysticks, num_joysticks, udev_ctx, udev_monitor, open_fds,
                   pending, proc, oob, stderr_line, joystick_ptr, ret, presses>>

(***************************************************************************)
(* Specifications                                                          *)
(***************************************************************************)
\* the registry: explicit opens, startup enumeration, hotplug, reset and
\* the poll step, on devices that send no events
Next ==
    \/ InitJoystick(Paths \cup {""})
    \/ InitUdevHotplug
    \/ InputReset
    \/ Hotplug(MaxPending)
    \/ ReadJoystick

\* slot reuse: explicit opens, reset and reads of devices that send events
NextReuse ==
    \/ InitJoystick(Paths)
    \/ InputReset
    \/ DeviceEvent(RegistryEvents)
    \/ ReadJoystick

SpecReuse == Init /\ [][NextReuse]_vars

Spec == Init /\ [][Next]_vars

\* the decoder on one explicitly opened device
NextAxis ==
    \/ InitFirstJoystick({"js0"})
    \/ DeviceEvent(AxisEvents)
    \/ ReadJoystick

SpecAxis == Init /\ [][NextAxis]_vars

\* the matcher on one explicitly opened device
NextSeq ==
    \/ InitFirstJoystick({"js0"})
    \/ DeviceEvent(PressEvents)
    \/ ReadJoystick
    \/ IsKeySeq

SpecSeq == Init /\ [][NextSeq]_vars

\* the key history of one device that is opened, used, reset and reopened
NextHist ==
    \/ InitFirstJoystick({"js0"})
    \/ InputReset
    \/ DeviceEvent(HistEvents)
    \/ ReadJoystick

SpecHist == Init /\ [][NextHist]_vars

\* get_available_player() as a function of the table: every table of
\* used and free slots whose players are numbers of 1 .. MAX_JOYSTICKS + 1
PlayerTables ==
    {t \in [Slots -> {[ZeroJoystick EXCEPT !.fd = f, !.player = q] :
                        f \in {-1} \cup FdRange,
                        q \in 1 .. (MAX_JOYSTICKS + 1)}] :
        \A i \in Slots : t[i].fd \in {-1, Min(FdRange) + i}}

InitPlayer ==
    /\ joysticks \in PlayerTables
    /\ num_joysticks \in 0 .. MAX_JOYSTICKS
    /\ udev_ctx = FALSE
    /\ udev_monitor = FALSE
    /\ open_fds = {joysticks[i].fd : i \in Slots} \ {-1}
    /\ evq = [f \in FdRange |-> << >>]
    /\ pending = << >>
    /\ proc = "running"
    /\ oob = FALSE
    /\ stderr_line = Line("", "", 0)
    /\ joystick_ptr = -1
    /\ ret = NoRet
    /\ presses = [i \in Slots |-> << >>]

NextPlayer == GetAvailablePlayer

SpecPlayer == InitPlayer /\ [][NextPlayer]_vars

\* the button decoder on one explicitly opened device
NextButton ==
    \/ InitFirstJoystick({"js0"})
    \/ DeviceEvent(ButtonEvents)
    \/ ReadJoystick

SpecButton == Init /\ [][NextButton]_vars

\* two explicitly opened devices that send events, and a caller that keeps
\* calling read_joystick(): a call that can return something is made
NextStarve ==
    \/ InitJoystick(Paths)
    \/ DeviceEvent(PollEvents)
    \/ ReadJoystick

SpecStarve == Init /\ [][NextStarve]_vars /\ WF_vars(ReadJoystick)

\* the key state of one device that is opened, used, reset and reopened
NextKeys ==
    \/ InitFirstJoystick({"js0"})
    \/ InputReset
    \/ DeviceEvent(KeyEvents)
    \/ ReadJoystick

SpecKeys == Init /\ [][NextKeys]_vars

\* the poll step: hotplugged devices that send events
NextPoll ==
    \/ InitFirstUdevHotplug
    \/ HotplugOf(PollNotifs, MaxPending)
    \/ DeviceEvent(PollEvents)
    \/ ReadJoystick

SpecPoll == Init /\ [][NextPoll]_vars

(***************************************************************************)
(* Properties of the registry (Spec)                                       *)
(***************************************************************************)
\* player numbers held by active slots
HeldPlayers(s) == {s.joysticks[i].player : i \in ActiveSlots(s)}

\* the smallest positive integer outside the finite set P
SmallestOutside(P) == Min({p \in 1 .. (Cardinality(P) + 1) : p \notin P})

\* the strict probe lets the open go on
ProbePasses(check_joydev, probe) == ~check_joydev \/ probe = "version"

\* C1: whatever happened before, an open_joystick that returns true has
\* given the new device the smallest positive integer that is the player
\* number of no slot active when it was called.
C1_SmallestUnusedPlayer ==
    Running =>
        \A devnode \in Paths, d \in Devs, check_joydev \in BOOLEAN :
            \A r \in open_joystick(Cur, devnode, d, check_joydev) :
                r.ok => /\ r.st.joysticks[r.idx].player
                            = SmallestOutside(HeldPlayers(Cur))
                        /\ r.st.joysticks[r.idx].fd \in r.st.open_fds

\* C1 witness: the last device initialized got player 1 in slot 0 while slot 1
\* was in use with player 2 (open, open, remove the first, open)
C1_Witness ==
    /\ Running
    /\ Active(Cur, 0) /\ Active(Cur, 1)
    /\ joysticks[0].player = 1 /\ joysticks[1].player = 2
    /\ stderr_line = Line("initialized joystick", joysticks[0].devnode, 1)

\* C2 as stated: in every state every active device's player number is the
\* smallest positive integer held by no other active device.
C2_AlwaysSmallestAmongOthers ==
    Running =>
        \A i \in ActiveSlots(Cur) :
            joysticks[i].player =
                SmallestOutside({joysticks[j].player : j \in ActiveSlots(Cur) \ {i}})

\* C2 amended: in every state the active devices' player numbers are positive
\* and pairwise distinct, and a device that an open leaves active holds the
\* smallest positive integer held by no other device active then; the
\* number is not lowered when a smaller one is freed later.
C2_PlayersDistinct ==
    Running =>
        /\ \A i \in ActiveSlots(Cur) : joysticks[i].player >= 1
        /\ \A i, j \in ActiveSlots(Cur) :
            i # j => joysticks[i].player # joysticks[j].player
        /\ \A devnode \in Paths, d \in Devs, check_joydev \in BOOLEAN :
            \A r \in open_joystick(Cur, devnode, d, check_joydev) :
                r.ok /\ Active(r.st, r.idx) =>
                    r.st.joysticks[r.idx].player =
                        SmallestOutside({r.st.joysticks[j].player
                                            : j \in ActiveSlots(r.st) \ {r.idx}})

\* C2 witness: a device keeps player 2 although player 1 has been freed
C2_Witness ==
    /\ Running
    /\ \E i \in ActiveSlots(Cur) : joysticks[i].player = 2
    /\ 1 \notin HeldPlayers(Cur)

\* C3: at most MAX_JOYSTICKS devices are active; an open on a full table fails
\* (with ENOMEM once open() and the probe have passed) and changes no slot;
\* once one slot of a full table is free again, an open whose open() and
\* probe pass returns true, leaves the device active in the lowest-indexed
\* free slot and gives it the lowest unused player number.
C3_CapacityAndReuse ==
    Running =>
        /\ count_joysticks(Cur) <= MAX_JOYSTICKS
        /\ num_joysticks <= MAX_JOYSTICKS
        /\ \A devnode \in Paths, d \in Devs, check_joydev \in BOOLEAN,
              o \in sys_open(Cur), probe \in VersionProbes :
            \A r \in open_joystick_on(Cur, devnode, d, check_joydev, o, probe) :
                /\ count_joysticks(Cur) = MAX_JOYSTICKS =>
                    /\ ~r.ok
                    /\ r.st.joysticks = joysticks
                    /\ r.st.num_joysticks = num_joysticks
                    /\ (o.fd # -1 /\ ProbePasses(check_joydev, probe))
                        => r.errno = "ENOMEM"
                /\ ( /\ num_joysticks = MAX_JOYSTICKS
                     /\ count_joysticks(Cur) = MAX_JOYSTICKS - 1
                     /\ o.fd # -1
                     /\ ProbePasses(check_joydev, probe) ) =>
                    /\ r.ok
                    /\ r.idx = Min(Slots \ ActiveSlots(Cur))
                    /\ Active(r.st, r.idx)
                    /\ r.st.joysticks[r.idx].player
                        = SmallestOutside(HeldPlayers(Cur))

\* C4: no two active slots hold the same st_rdev or the same path.
C4_UniqueIdentityAndPath ==
    \A i, j \in ActiveSlots(Cur) :
        i # j => /\ joysticks[i].dev # joysticks[j].dev
                 /\ joysticks[i].devnode # joysticks[j].devnode

\* C5: add_udev_device for a device whose st_rdev is that of an active slot
\* leaves the table, the count, the descriptors and their queues as they were.
C5_DuplicateAddIsNoOp ==
    Running =>
        \A devnode \in Paths, d \in Devs :
            (\E i \in ActiveSlots(Cur) : joysticks[i].dev = d) =>
                \A t \in add_udev_device_on(Cur, devnode, d) :
                    /\ t.joysticks = joysticks
                    /\ t.num_joysticks = num_joysticks
                    /\ t.open_fds = open_fds
                    /\ t.evq = evq
                    /\ t.proc = "running"

\* C5 witness: a hotplug add has just been turned down as a duplicate
C5_Witness ==
    /\ Running
    /\ stderr_line.msg = "add_udev_device: allready opened"
    /\ \E i \in ActiveSlots(Cur) : joysticks[i].devnode # stderr_line.devnode

\* C6: a hotplug add whose open() fails, whose version probe fails or returns
\* 0, or which finds the table full is skipped: no slot and no count changes,
\* and no hotplug add ever ends the process with exit().
C6_FailedAddSkipped ==
    Running =>
        \A devnode \in Paths, d \in Devs :
            /\ \A o \in sys_open(Cur), probe \in VersionProbes :
                ( \/ o.fd = -1
                  \/ probe \in {"error", "zero"}
                  \/ count_joysticks(Cur) = MAX_JOYSTICKS ) =>
                    \A r \in open_joystick_on(Cur, devnode, d, TRUE, o, probe) :
                        /\ ~r.ok
                        /\ r.st.joysticks = joysticks
                        /\ r.st.num_joysticks = num_joysticks
                        /\ count_joysticks(r.st) = count_joysticks(Cur)
                        /\ r.st.proc = "running"
            /\ \A t \in add_udev_device(Cur, devnode) : t.proc # "exited"

\* C6 witness: a hotplug add has just failed next to a device in use
C6_Witness ==
    /\ Running
    /\ stderr_line.msg = "add_udev_device: unable to open"
    /\ count_joysticks(Cur) >= 1

\* C7: every descriptor the process holds is the handle of exactly one
\* active slot, so a failed open_joystick has closed what it opened.
C7_NoLeakedDescriptor ==
    Running =>
        \A fd \in open_fds :
            Cardinality({i \in ActiveSlots(Cur) : joysticks[i].fd = fd}) = 1

(***************************************************************************)
(* Properties of slot reuse (SpecReuse)                                    *)
(***************************************************************************)
\* C8: an open_joystick that returns true leaves the slot it opened with
\* key_state 0, last_key (NONE, false) and an all-zero key history, also
\* when the slot had recorded presses before it was freed.  Stated for the
\* runs in which nothing has been written outside the table.
C8_OpenedSlotIsClean ==
    (Running /\ ~oob) =>
        \A devnode \in Paths, d \in Devs, check_joydev \in BOOLEAN :
            \A r \in open_joystick(Cur, devnode, d, check_joydev) :
                r.ok => /\ r.st.joysticks[r.idx].key_state = {}
                        /\ r.st.joysticks[r.idx].last_key_idx = KEYPAD_NONE
                        /\ r.st.joysticks[r.idx].last_key_val = FALSE
                        /\ r.st.joysticks[r.idx].key_history = ZeroHistory

(***************************************************************************)
(* Properties of the axis decoder (SpecAxis)                               *)
(***************************************************************************)
\* the claimed effect of an event of value v on the axis of keys neg (values
\* <= -1024) and pos (values >= 1024), from record j to record k
AxisEffect(j, k, v, neg, pos) ==
    /\ \A key \in Keys \ {neg, pos} : key \in k.key_state <=> key \in j.key_state
    /\ v <= -1024 =>
        /\ neg \in k.key_state /\ pos \notin k.key_state
        /\ k.last_key_idx = neg /\ k.last_key_val
        /\ k.key_history[0] = neg
        /\ \A h \in 1 .. (KEY_HISTORY_SIZE - 1) :
            k.key_history[h] = j.key_history[h - 1]
    /\ v >= 1024 =>
        /\ pos \in k.key_state /\ neg \notin k.key_state
        /\ k.last_key_idx = pos /\ k.last_key_val
        /\ k.key_history[0] = pos
        /\ \A h \in 1 .. (KEY_HISTORY_SIZE - 1) :
            k.key_history[h] = j.key_history[h - 1]
    /\ (-1024 < v /\ v < 1024) =>
        /\ neg \notin k.key_state /\ pos \notin k.key_state
        /\ ~k.last_key_val
        /\ k.last_key_idx = (IF neg \in j.key_state THEN neg
                             ELSE IF pos \in j.key_state THEN pos
                             ELSE KEYPAD_NONE)
        /\ k.key_history = j.key_history

\* a step in which read_joystick consumes the event at the head of slot i
Consumed(i) ==
    /\ Active(Cur, i)
    /\ evq[joysticks[i].fd] # << >>
    /\ evq'[joysticks[i].fd] = Tail(evq[joysticks[i].fd])
    /\ joysticks'[i].fd = joysticks[i].fd

C9_Step ==
    \A i \in Slots :
        Consumed(i) =>
            LET e == Head(evq[joysticks[i].fd])
            IN  /\ (e.type = "AXIS" /\ e.number = 0) =>
                    AxisEffect(joysticks[i], joysticks'[i], e.value,
                               "LEFT", "RIGHT")
                /\ (e.type = "AXIS" /\ e.number = 1) =>
                    AxisEffect(joysticks[i], joysticks'[i], e.value,
                               "UP", "DOWN")

\* C9: an event on axis 0 of value <= -1024 sets LEFT, clears RIGHT, makes
\* last_key (LEFT, true) and pushes LEFT to the history; a value >= 1024 does
\* the same for RIGHT; a value in between clears both, reports the release
\* of LEFT if it was set, else of RIGHT if it was set, else NONE, and leaves
\* the history alone.  Axis 1 does the same with UP and DOWN.
C9_AxisDecode == [][C9_Step]_vars

\* C9 witness: -1200 and then a dead-zone value have been read on axis 0:
\* LEFT is reported released, is clear, and is still the newest history entry
C9_Witness ==
    /\ Running
    /\ ret = Ret("read_joystick", TRUE, -1, << >>, {})
    /\ joystick_ptr = 0
    /\ joysticks[0].last_key_idx = "LEFT"
    /\ ~joysticks[0].last_key_val
    /\ "LEFT" \notin joysticks[0].key_state
    /\ joysticks[0].key_history[0] = "LEFT"
    /\ joysticks[0].key_history[1] = KEYPAD_NONE

(***************************************************************************)
(* Properties of the matcher (SpecSeq)                                     *)
(***************************************************************************)
\* what joystick_is_key_seq is to return for a slot (-1 = NULL) and seq
Matches(joystick, seq) ==
    /\ joystick # -1
    /\ Len(seq) <= KEY_HISTORY_SIZE
    /\ \A k \in 0 .. (Len(seq) - 1) :
        joysticks[joystick].key_history[Len(seq) - 1 - k] = seq[k + 1]

C10_Returned ==
    ret.op = "joystick_is_key_seq" =>
        /\ ret.val <=> Matches(ret.joystick, ret.seq)
        /\ ret.reads \subseteq 0 .. (KEY_HISTORY_SIZE - 1)

C10_Pure ==
    (ret' # ret /\ ret'.op = "joystick_is_key_seq") =>
        UNCHANGED <<joysticks, num_joysticks, udev_ctx, udev_monitor, open_fds,
                    evq, pending, proc, oob, stderr_line, joystick_ptr, presses>>

\* C10: joystick_is_key_seq(joystick, seq, L) returns true iff the joystick
\* is not null, L <= KEY_HISTORY_SIZE and history[L-1-k] = seq[k] for all k
\* in [0, L) (so true for L = 0); it reads no history index outside
\* [0, KEY_HISTORY_SIZE) and changes no state.
C10_KeySeqMatches == [](C10_Returned) /\ [][C10_Pure]_vars

\* C10 witness: a sequence of two different keys has matched the history
C10_Witness ==
    /\ ret.op = "joystick_is_key_seq"
    /\ ret.val
    /\ Len(ret.seq) >= 2
    /\ ret.seq[1] # ret.seq[2]
    /\ ret.seq[1] \in Keys /\ ret.seq[2] \in Keys

\* the active slots a remove notification for path p names
Hit(p) == {i \in ActiveSlots(Cur) : joysticks[i].devnode = p}

\* C12: a hotplug remove for path p closes the descriptor of, and frees,
\* exactly the active slots whose path is p, each descriptor being open and
\* closed once; their player numbers are unheld and the very next open
\* takes the smallest unheld one; every other slot and the rest of the
\* state stay as they are, and if no active slot has path p nothing changes.
C12_RemoveFreesExactlyPath ==
    Running =>
        \A p \in Paths :
            LET t == remove_udev_device(Cur, p)
                fds == {joysticks[i].fd : i \in Hit(p)}
            IN  /\ \A i \in Hit(p) :
                    /\ joysticks[i].fd \in open_fds
                    /\ t.joysticks[i] = [joysticks[i] EXCEPT !.fd = -1]
                    /\ joysticks[i].player \notin HeldPlayers(t)
                /\ Cardinality(fds) = Cardinality(Hit(p))
                /\ t.open_fds = open_fds \ fds
                /\ ActiveSlots(t) = ActiveSlots(Cur) \ Hit(p)
                /\ \A i \in Slots \ Hit(p) : t.joysticks[i] = joysticks[i]
                /\ t.num_joysticks = num_joysticks
                /\ t.udev_ctx = udev_ctx /\ t.udev_monitor = udev_monitor
                /\ t.proc = proc /\ t.oob = oob
                /\ Hit(p) = {} => t = Cur
                /\ \A devnode \in Paths, d \in Devs, check_joydev \in BOOLEAN :
                    \A r \in open_joystick(t, devnode, d, check_joydev) :
                        r.ok =>
                            /\ r.st.joysticks[r.idx].player
                                   = SmallestOutside(HeldPlayers(t))
                            /\ \A i \in Hit(p) :
                                r.st.joysticks[r.idx].player
                                    <= joysticks[i].player

\* C12 witness: a remove notification has freed a slot, its descriptor is
\* closed, and another device is still active
C12_Witness ==
    /\ Running
    /\ stderr_line.msg = "remove_udev_device: removed joystick"
    /\ \E i, k \in Slots :
        /\ i < num_joysticks /\ joysticks[i].fd = -1
        /\ joysticks[i].devnode = stderr_line.devnode
        /\ Active(Cur, k)
        /\ joysticks[k].devnode # stderr_line.devnode
        /\ open_fds = {joysticks[k].fd}

\* C13: input_reset() in any reachable state leaves no active device, has
\* closed every descriptor an active slot held (each open, each once) and
\* released the udev context and monitor; before any initialisation it
\* changes nothing; a second call changes nothing more; and an open after
\* it hands out what an open in the pre-init state hands out: slot 0,
\* player 1, no key set, no last key, an empty history.
C13_ResetRestoresPreInit ==
    (Running /\ ~oob) =>
        LET t == input_reset(Cur)
            fds == {joysticks[i].fd : i \in ActiveSlots(Cur)}
        IN  /\ t.num_joysticks = 0 /\ count_joysticks(t) = 0
            /\ fds \subseteq open_fds
            /\ Cardinality(fds) = Cardinality(ActiveSlots(Cur))
            /\ t.open_fds = open_fds \ fds
            /\ ~t.udev_ctx /\ ~t.udev_monitor
            /\ (num_joysticks = 0 /\ ~udev_ctx /\ ~udev_monitor) => t = Cur
            /\ input_reset(t) = t
            /\ \A devnode \in Paths, d \in Devs, check_joydev \in BOOLEAN :
                \A r \in open_joystick(t, devnode, d, check_joydev) :
                    r.ok =>
                        /\ r.idx = 0
                        /\ r.st.joysticks[0].player = 1
                        /\ r.st.joysticks[0].key_state = {}
                        /\ r.st.joysticks[0].last_key_idx = KEYPAD_NONE
                        /\ ~r.st.joysticks[0].last_key_val
                        /\ r.st.joysticks[0].key_history = ZeroHistory

\* C15 as stated: init_udev_hotplug() ends in exit(EXIT_FAILURE) whenever
\* the udev context, the monitor or the enumeration cannot be created, and
\* the program never runs with a udev context but no monitor.
C15_AnyInitFailureFatal ==
    Running =>
        /\ udev_ctx => udev_monitor
        /\ \A devices \in SeqsUpTo(Paths, MaxEnum) :
            \A udev_ok \in BOOLEAN, mon_ok \in BOOLEAN, enum_ok \in BOOLEAN :
                ~(udev_ok /\ mon_ok /\ enum_ok) =>
                    \A t \in init_udev_hotplug_on(Cur, devices, udev_ok,
                                                  mon_ok, enum_ok) :
                        t.proc = "exited"

\* C15, amended: init_udev_hotplug() ends in exit(EXIT_FAILURE) when the
\* udev context or the enumeration cannot be created; when only the monitor
\* cannot be created it reports that, goes on to enumerate and returns with
\* udev_monitor NULL, and udev_monitor_poll() then does nothing.
C15_ContextAndEnumerationFatal ==
    Running =>
        \A devices \in SeqsUpTo(Paths, MaxEnum) :
            \A udev_ok \in BOOLEAN, mon_ok \in BOOLEAN, enum_ok \in BOOLEAN :
                \A t \in init_udev_hotplug_on(Cur, devices, udev_ok,
                                              mon_ok, enum_ok) :
                    /\ ~(udev_ok /\ enum_ok) => t.proc = "exited"
                    /\ (udev_ok /\ enum_ok) => t.proc # "exited"
                    /\ (udev_ok /\ enum_ok /\ ~mon_ok) =>
                        /\ ~t.udev_monitor
                        /\ \A q \in SeqsUpTo(Notifs, MaxPending) :
                            udev_monitor_poll(t, q) = {<<t, q>>}

\* C15 witness: the program runs after an init_udev_hotplug() whose monitor
\* could not be created and whose enumeration opened a device
C15_Witness ==
    /\ Running
    /\ ~oob
    /\ udev_ctx /\ ~udev_monitor
    /\ num_joysticks = 1
    /\ Active(Cur, 0)

\* C20: open_joystick reads and writes joysticks[] only at indices of
\* [0, MAX_JOYSTICKS), the index num_joysticks of its history clearing
\* included, and 0 <= count_joysticks() <= num_joysticks <= MAX_JOYSTICKS.
C20_SlotIndicesInBounds ==
    /\ ~oob
    /\ 0 <= count_joysticks(Cur)
    /\ count_joysticks(Cur) <= num_joysticks
    /\ num_joysticks <= MAX_JOYSTICKS
    /\ Running =>
        \A devnode \in Paths, d \in Devs, check_joydev \in BOOLEAN :
            \A r \in open_joystick(Cur, devnode, d, check_joydev) :
                /\ ~r.st.oob
                /\ r.ok => r.idx \in Slots

(***************************************************************************)
(* Properties of get_available_player (SpecPlayer)                         *)
(***************************************************************************)
\* C16: for every table, whatever players its active slots hold and in
\* whatever slot order, get_available_player() returns the smallest positive
\* integer that no active slot holds.
C16_SmallestForAnyTable ==
    ret.op = "get_available_player" =>
        ret.val = SmallestOutside(HeldPlayers(Cur))

(***************************************************************************)
(* Properties of the button decoder (SpecButton)                           *)
(***************************************************************************)
\* button events a device may send: every index up to 10, released,
\* pressed with value 1 and with other nonzero values, replayed or not
AnyButtonEvents ==
    {Event("BUTTON", i, n, v) : i \in BOOLEAN, n \in 0 .. 10,
                               v \in {0, 1, -1, 255}}

\* the key the claim gives a button index
MappedKey(n) ==
    CASE n = 8 -> "SELECT" [] n = 9 -> "START" [] n = 0 -> "B" [] n = 1 -> "A"
      [] OTHER -> KEYPAD_NONE

\* slot record k is what button event e makes of slot record j
ButtonEffect(j, k, e) ==
    IF MappedKey(e.number) # KEYPAD_NONE
    THEN /\ k.last_key_idx = MappedKey(e.number)
         /\ k.last_key_val = (e.value # 0)
         /\ k.key_state = IF e.value # 0
                          THEN j.key_state \cup {MappedKey(e.number)}
                          ELSE j.key_state \ {MappedKey(e.number)}
    ELSE /\ k.last_key_idx = KEYPAD_NONE
         /\ ~k.last_key_val
         /\ k.key_state = j.key_state
         /\ k.key_history = j.key_history

C17_Decode ==
    \A i \in ActiveSlots(Cur), e \in AnyButtonEvents :
        /\ ButtonEffect(joysticks[i], push_history(decode(joysticks[i], e)), e)
        /\ push_history(decode(joysticks[i], e))
            = push_history(decode(joysticks[i], [e EXCEPT !.init = ~@]))

C17_Step ==
    \A i \in Slots :
        (Consumed(i) /\ Head(evq[joysticks[i].fd]).type = "BUTTON") =>
            ButtonEffect(joysticks[i], joysticks'[i], Head(evq[joysticks[i].fd]))

\* C17: a button event with index 8, 9, 0 or 1 makes last_key (SELECT,
\* START, B or A, value != 0) and sets that key's bit on a press, clears it
\* on a release, and touches no other bit; any other index makes last_key
\* (NONE, false) and leaves key_state and the history as they are; an event
\* with the initial-state replay flag is decoded like the same event
\* without it.
C17_ButtonDecode == [](C17_Decode) /\ [][C17_Step]_vars

\* C17 witness: with A held, SELECT was pressed and its release read
C17_Witness ==
    /\ Running
    /\ ret = Ret("read_joystick", TRUE, -1, << >>, {})
    /\ joystick_ptr = 0
    /\ joysticks[0].key_state = {"A"}
    /\ joysticks[0].last_key_idx = "SELECT"
    /\ ~joysticks[0].last_key_val
    /\ joysticks[0].key_history[0] = "SELECT"
    /\ joysticks[0].key_history[1] = "A"

(***************************************************************************)
(* Properties of the scan order (SpecStarve)                               *)
(***************************************************************************)
\* a step in which an event arrives on some descriptor
Arrival == \E f \in FdRange : Len(evq'[f]) > Len(evq[f])

\* a call decodes the event of slot i only if no lower-indexed active slot
\* has one, and leaves the events of every other descriptor pending
C18_Step ==
    \A i \in Slots :
        Consumed(i) =>
            /\ \A k \in Readable(Cur) : i <= k
            /\ \A f \in FdRange \ {joysticks[i].fd} : evq'[f] = evq[f]

\* no event of an active device is pending
C18_AllDecoded == Running => Readable(Cur) = {}

\* C18: a pending event of an active device is decoded by a call only if no
\* lower-indexed active slot yields an event in that call, the events of
\* later slots staying pending for as long as that goes on; and if from
\* some point on no new event arrives, the repeated calls eventually leave
\* no event of any active device pending.
C18_StarvationButProgress ==
    /\ [][C18_Step]_vars
    /\ (<>[][~Arrival]_vars) => <>[]C18_AllDecoded

\* C18 witness: a call has just decoded an event of slot 0 while an event of
\* slot 1 is pending, and the next event of slot 0 has arrived already
C18_Witness ==
    /\ Running
    /\ ret = Ret("read_joystick", TRUE, -1, << >>, {})
    /\ joystick_ptr = 0
    /\ Active(Cur, 0) /\ Active(Cur, 1)
    /\ evq[joysticks[0].fd] # << >>
    /\ evq[joysticks[1].fd] # << >>
    /\ presses[0] # << >> /\ presses[1] = << >>

(***************************************************************************)
(* Properties of the key state (SpecKeys)                                  *)
(***************************************************************************)
\* C19: no active device ever has LEFT and RIGHT set together, nor UP and
\* DOWN; whenever its last_key is a press that key is set in key_state, and
\* when its last_key is the release of a key that key is clear.
C19_KeyStateConsistent ==
    Running =>
        \A i \in ActiveSlots(Cur) :
            LET j == joysticks[i]
            IN  /\ ~("LEFT" \in j.key_state /\ "RIGHT" \in j.key_state)
                /\ ~("UP" \in j.key_state /\ "DOWN" \in j.key_state)
                /\ j.last_key_val => j.last_key_idx \in j.key_state
                /\ (~j.last_key_val /\ j.last_key_idx # KEYPAD_NONE) =>
                    j.last_key_idx \notin j.key_state

\* C19 witness: the stick went left, then right and down, then A was
\* pressed and released
C19_Witness ==
    /\ Running
    /\ Active(Cur, 0)
    /\ joysticks[0].key_state = {"RIGHT", "DOWN"}
    /\ joysticks[0].last_key_idx = "A" /\ ~joysticks[0].last_key_val
    /\ joysticks[0].key_history[0] = "A"

(***************************************************************************)
(* Properties of the poll step (SpecPoll)                                  *)
(***************************************************************************)
\* slot record k is record j but for what a decode may change
DecodedFrom(j, k) ==
    k = [j EXCEPT !.key_state = k.key_state,
                  !.last_key_idx = k.last_key_idx,
                  !.last_key_val = k.last_key_val,
                  !.key_history = k.key_history]

\* r is what the read phase of read_joystick may return from state d, the
\* state the hotplug drain has left
ReadPhase(d, r) ==
    IF Readable(d) = {}
    THEN /\ ~r.val
         /\ r.ptr = joystick_ptr
         /\ r.st = d
    ELSE LET i == Min(Readable(d))
             fd == d.joysticks[i].fd
         IN  /\ r.val
             /\ r.ptr = i
             /\ r.st.evq = [d.evq EXCEPT ![fd] = Tail(@)]
             /\ \A k \in Slots \ {i} : r.st.joysticks[k] = d.joysticks[k]
             /\ DecodedFrom(d.joysticks[i], r.st.joysticks[i])
             /\ [r.st EXCEPT !.evq = d.evq, !.joysticks = d.joysticks,
                             !.presses = d.presses] = d

\* C14: a call of read_joystick returns having first drained every pending
\* hotplug notification, so that no slot freed by the drain is read; it
\* then consumes one event, of the lowest-indexed active slot that has one,
\* and the decode changes key_state, last_key and history of that slot
\* only; when no active slot has an event it returns false and leaves the
\* output pointer and every device record as they were.
C14_DrainThenReadOne ==
    Running =>
        \A r \in read_joystick(Cur, pending, joystick_ptr) :
            /\ r.st.proc = "running"
            /\ (udev_ctx /\ udev_monitor) => r.queue = << >>
            /\ r.val => Active(r.st, r.ptr)
            /\ \E p \in udev_monitor_poll(Cur, pending) : ReadPhase(p[1], r)

(***************************************************************************)
(* Properties of the key history (SpecHist)                                *)
(***************************************************************************)
\* the last L entries of a sequence
LastOf(q, L) == SubSeq(q, Len(q) - L + 1, Len(q))

\* key sequences of up to KEY_HISTORY_SIZE pressed keys
HistSeqs == SeqsUpTo({"A", "B", "LEFT"}, KEY_HISTORY_SIZE)

C11_Matches ==
    Running =>
        \A i \in ActiveSlots(Cur), seq \in HistSeqs :
            Len(seq) <= Len(presses[i]) =>
                \A r \in joystick_is_key_seq(Cur, i, seq) :
                    r[1] <=> (seq = LastOf(presses[i], Len(seq)))

C11_Step ==
    \A i \in Slots :
        Consumed(i) =>
            LET key == press_key(Head(evq[joysticks[i].fd]))
                old == joysticks[i].key_history
                new == joysticks'[i].key_history
            IN  IF key = KEYPAD_NONE
                THEN new = old
                ELSE /\ new[0] = key
                     /\ \A h \in 1 .. (KEY_HISTORY_SIZE - 1) : new[h] = old[h - 1]

\* C11: once a device has decoded at least L <= KEY_HISTORY_SIZE presses
\* since it was opened, joystick_is_key_seq(seq) with |seq| = L is true
\* exactly when seq is the last L presses, oldest first; releases, unmapped
\* and dead-zone events never change the history, and each press shifts it
\* by one and discards the oldest entry.
C11_HistoryIsLastPresses == [](C11_Matches) /\ [][C11_Step]_vars

\* C11 witness: a device has decoded the presses of B and of A and then the
\* release of A: <<B, A>> matches and <<A, B>> does not
C11_Witness ==
    /\ Running
    /\ Active(Cur, 0)
    /\ presses[0] = <<"B", "A">>
    /\ joysticks[0].last_key_idx = "A" /\ ~joysticks[0].last_key_val
    /\ joystick_is_key_seq(Cur, 0, <<"B", "A">>) = {<<TRUE, {0, 1}>>}
    /\ \A r \in joystick_is_key_seq(Cur, 0, <<"A", "B">>) : ~r[1]

====
